---- MODULE Spec2Model ----
(***************************************************************************)
(* A model of the sysfs GPIO pin handle of src/src/sysfs.rs: opening a    *)
(* pin (export, polarity, direction, value channel), switching its         *)
(* direction, sampling and driving it, and the unexport on drop.           *)
(*                                                                         *)
(* Every file-system call of the code is one attempt that the kernel may   *)
(* fail.  SysFsGpio::open is modelled call by call (pc), so that the       *)
(* namespace may change between its visibility check and its export        *)
(* write; the handlers on an open handle are one action each, with the     *)
(* failing call, if any, chosen by the environment.  log and ret record    *)
(* the calls made and the result returned; reads counts served reads.      *)
(*                                                                         *)
(* The edge multiplexer SysFsGpioEdgeIter of the same file and the         *)
(* polling iterator DummyEdgeIter of src/src/dummy.rs are modelled next    *)
(* to it, each with a specification of its own (SpecMux, SpecDummy), for   *)
(* they share no state with a pin handle; the kernel's epoll instance, the *)
(* clock and the callbacks of the test double are the environment.         *)
(* SpecRace runs two open calls at once.                                   *)
(***************************************************************************)
EXTENDS Integers, Sequences, FiniteSets, TLC

\* ---------------------------------------------------------------- bounds

\* The two pin numbers used: one of one decimal digit, one of two.
LowPin == 7
HighPin == 23
\* Direction switches (into_input / into_output) per handle.
MaxSwitches == 2
\* Bytes written through one output channel before it is reopened.
MaxWrites == 2

\* Reads of one input channel that the model tells apart (the count saturates).
MaxReads == 2

\* Input handles that may be registered with the edge multiplexer.
MaxDevs == 2
\* Low half of the largest correlation token that epoll_wait may hand back.
MaxToken == 2
\* Largest timeout, in milliseconds, given to timeout_ms.
MaxTimeout == 1
\* Test-double devices, and registrations with the test-double iterator.
MaxDummies == 1
\* Callback invocations of the test double that are recorded.
MaxPolls == 5

\* The model follows one handle from its open call to its end; every other
\* user of the GPIO namespace (another handle, another process) is the
\* environment, which exports and unexports pins and moves the lines.
Handles == {1}
Pins == {LowPin, HighPin}

\* ------------------------------------------------------- program constants

\* The bytes b'0', b'1' the value channel carries, and the line terminator.
ByteZero == 48
ByteOne == 49
ByteNewline == 10

Input == "Input"
Output == "Output"
Directions == {Input, Output}
GpioEdges == {"None", "Rising", "Falling", "Both"}

\* b"in" and b"out"
DirectionBytes(direction) ==
    IF direction = Input THEN <<105, 110>> ELSE <<111, 117, 116>>

\* b"none", b"rising", b"falling", b"both"
EdgeBytes(edge) ==
    CASE edge = "None" -> <<110, 111, 110, 101>>
      [] edge = "Rising" -> <<114, 105, 115, 105, 110, 103>>
      [] edge = "Falling" -> <<102, 97, 108, 108, 105, 110, 103>>
      [] OTHER -> <<98, 111, 116, 104>>

\* format!("{}", gpio_num): the decimal digits of a u16, most significant first.
RECURSIVE Decimal(_)
Decimal(n) ==
    IF n < 10 THEN <<ByteZero + n>>
    ELSE Decimal(n \div 10) \o <<ByteZero + (n % 10)>>

\* What export_gpio_if_unexported writes to the export control: "{}".
ExportBytes(gpio_num) == Decimal(gpio_num)

\* What drop writes to the unexport control: "{}\n".
UnexportBytes(gpio_num) == Decimal(gpio_num) \o <<ByteNewline>>

\* What both polarity writes put into active_low: b"0".
ActiveLowBytes == <<ByteZero>>

\* The content of a pin's value resource: '0' or '1' and a line terminator,
\* or a byte that is neither (a malformed resource).
ValueContents == {<<ByteZero, ByteNewline>>, <<ByteOne, ByteNewline>>,
                  <<ByteOne + 1, ByteNewline>>}

\* ----------------------------------------------------------------- paths

\* "/sys/class/gpio/export" and "/sys/class/gpio/unexport": no pin in the path.
ControlPath(file) == [file |-> file, gpio |-> 0 - 1]
\* "/sys/class/gpio/gpio{}/<file>"
PinPath(gpio_num, file) == [file |-> file, gpio |-> gpio_num]

\* One file-system call the code made: the path, the call, the bytes written
\* (none for an open) and whether the kernel let it succeed.
Call(path, op, data, ok) == [path |-> path, op |-> op, data |-> data, ok |-> ok]

\* ---------------------------------------------------------------- results

Ok == [kind |-> "Ok", file |-> "", op |-> "", byte |-> 0]
\* GpioError::Io(err), with the file and the call the io::Error came from.
IoError(file, op) == [kind |-> "Io", file |-> file, op |-> op, byte |-> 0]
\* GpioError::InvalidData(val)
InvalidData(val) == [kind |-> "InvalidData", file |-> "", op |-> "", byte |-> val]
\* Ok(GpioValue::Low), Ok(GpioValue::High)
Low == [kind |-> "Low", file |-> "", op |-> "", byte |-> 0]
High == [kind |-> "High", file |-> "", op |-> "", byte |-> 0]

NoFile == [mode |-> "closed", pos |-> 0]
\* A freshly opened value channel: the cursor is at the start.
File(mode) == [mode |-> mode, pos |-> 0]

VARIABLES
    exported,   \* the pins visible in the GPIO namespace (gpioN exists)
    value,      \* each pin's value resource content
    pc,         \* each handle: where its open call is, or what became of it
    gpio_num,   \* each handle's pin number
    dir,        \* each handle's direction
    sysfp,      \* each handle's value channel
    log,        \* each handle: the calls it made on control resources
    reads,      \* each handle: bytes read through its channel since it was opened
    ret         \* the last handler that returned: handle, handler, result, calls

VARIABLES
    iter,       \* the SysFsGpioEdgeIter: whether it lives, timeout, devs, epoll_fd
    epoll,      \* the kernel: open epoll instances and the interest list
    item,       \* what the last call on the multiplexer returned
    usize_bits, \* the width of usize on the target of the build
    dummy_in,   \* each DummyGpioIn's edge policy
    dummy_iter, \* the DummyEdgeIter: position of next, timeout, devs, elapsed
    polls,      \* the callback invocations made through the DummyEdgeIter
    dummy_item  \* what the last pull on the DummyEdgeIter returned

hvars == <<exported, value, pc, gpio_num, dir, sysfp, log, reads, ret>>
evars == <<iter, epoll, item, usize_bits>>
dvars == <<dummy_in, dummy_iter, polls, dummy_item>>
vars == <<exported, value, pc, gpio_num, dir, sysfp, log, reads, ret,
          iter, epoll, item, usize_bits,
          dummy_in, dummy_iter, polls, dummy_item>>

\* ------------------------------------------------------ file-system calls

\* How a create-then-write of one file can end.
Outcomes == {"ok", "open_fails", "write_fails"}

\* A file below gpioN can be opened only while gpioN is visible; any call
\* that can succeed can also fail.
Possible(path, outcome) ==
    \/ outcome = "open_fails"
    \/ path.gpio < 0
    \/ path.gpio \in exported

\* fs::File::create(path)?.write_all(data)?: the calls made, for an outcome.
WriteFile(path, data, outcome) ==
    IF outcome = "open_fails" THEN <<Call(path, "create", <<>>, FALSE)>>
    ELSE <<Call(path, "create", <<>>, TRUE),
           Call(path, "write", data, outcome = "ok")>>

\* The error a failed create-then-write returns through `?`.
WriteError(path, outcome) ==
    IoError(path.file, IF outcome = "open_fails" THEN "create" ELSE "write")

\* The calls kept in a handle's log: those on the control resources and the
\* opening of the value channel (not the reads and writes through it, nor the
\* edge policy writes, which are unbounded in number).
IsLogged(call) ==
    \/ call.path.file \in {"gpio", "export", "unexport", "active_low", "direction"}
    \/ call.path.file = "value" /\ call.op \in {"open", "create"}

Logged(calls) == SelectSeq(calls, IsLogged)

\* The calls of `calls` on the file `file`, with the given op.
CallsOn(calls, file, op) ==
    SelectSeq(calls, LAMBDA c : c.path.file = file /\ c.op = op)

\* ------------------------------------------------------------ SysFsGpio

\* set_gpio_direction: create the direction control and write b"in" / b"out".
set_gpio_direction(n, direction, outcome) ==
    WriteFile(PinPath(n, "direction"), DirectionBytes(direction), outcome)

\* open_gpio: File::open for Input, File::create for Output.
open_gpio(n, direction, ok) ==
    <<Call(PinPath(n, "value"),
           IF direction = Input THEN "open" ELSE "create", <<>>, ok)>>

\* The channel open_gpio returns.
open_gpio_file(direction) == File(IF direction = Input THEN "read" ELSE "write")

\* A drop that tries the unexport write again when it failed.
drop_retrying(n, outcome) ==
    WriteFile(ControlPath("unexport"), UnexportBytes(n), outcome)
        \o (IF outcome = "write_fails"
            THEN <<Call(ControlPath("unexport"), "write", UnexportBytes(n), FALSE)>>
            ELSE <<>>)

\* A SysFsGpio without its Drop: nothing is unexported.
drop_skipping_unexport(n, outcome) == <<>>

\* Drop for SysFsGpio: create the unexport control; if that worked, write
\* "{}\n" to it; both results are dropped.
drop(n, outcome) ==
    WriteFile(ControlPath("unexport"), UnexportBytes(n), outcome)

\* The namespace after the calls of a drop: a successful unexport write
\* removes gpioN.
Unexported(n, outcome) ==
    IF outcome = "ok" THEN exported \ {n} ELSE exported

\* A handler of handle h returns val after making `calls`.
Returns(h, op, val, calls) ==
    /\ log' = [log EXCEPT ![h] = @ \o Logged(calls)]
    /\ ret' = [h |-> h, op |-> op, val |-> val, calls |-> calls]

\* A step of an open call that has not returned yet.
Continues(h, calls) ==
    /\ log' = [log EXCEPT ![h] = @ \o Logged(calls)]
    /\ UNCHANGED ret

\* An open that builds the SysFsGpio before its last fallible call: the error
\* path drops it, and the drop unexports.
open_fails_unexporting(h, e, calls) ==
    /\ pc' = [pc EXCEPT ![h] = "failed"]
    /\ log' = [log EXCEPT ![h] = @ \o Logged(calls)
                    \o WriteFile(ControlPath("unexport"), UnexportBytes(gpio_num[h]), "ok")]
    /\ ret' = [h |-> h, op |-> "open", val |-> e, calls |-> log'[h]]

\* SysFsGpio::open returns Err(e): no SysFsGpio was built, nothing is dropped.
open_fails(h, e, calls) ==
    /\ pc' = [pc EXCEPT ![h] = "failed"]
    /\ log' = [log EXCEPT ![h] = @ \o Logged(calls)]
    /\ ret' = [h |-> h, op |-> "open", val |-> e, calls |-> log'[h]]

\* An open that exports without looking (as SysFsGpioOut::new of lib.rs does).
open_metadata_always_exporting(h, n, direction) ==
    /\ pc[h] = "new"
    /\ gpio_num' = [gpio_num EXCEPT ![h] = n]
    /\ dir' = [dir EXCEPT ![h] = direction]
    /\ pc' = [pc EXCEPT ![h] = "export"]
    /\ log' = [log EXCEPT ![h] =
                  @ \o <<Call(PinPath(n, "gpio"), "metadata", <<>>, n \in exported)>>]
    /\ UNCHANGED <<exported, value, sysfp, reads, ret>>

\* SysFsGpio::open(gpio_num, direction), first call, in
\* export_gpio_if_unexported: fs::metadata("/sys/class/gpio/gpio{}").is_err()
open_metadata(h, n, direction) ==
    /\ pc[h] = "new"
    /\ gpio_num' = [gpio_num EXCEPT ![h] = n]
    /\ dir' = [dir EXCEPT ![h] = direction]
    /\ pc' = [pc EXCEPT ![h] = IF n \in exported THEN "active_low" ELSE "export"]
    /\ Continues(h, <<Call(PinPath(n, "gpio"), "metadata", <<>>, n \in exported)>>)
    /\ UNCHANGED <<exported, value, sysfp, reads>>

\* An export step that looks at the namespace again and leaves the export
\* control alone if the pin has become visible since the check.
open_export_rechecking(h, outcome) ==
    LET n == gpio_num[h]
        path == ControlPath("export")
        calls == WriteFile(path, ExportBytes(n), outcome)
    IN  /\ pc[h] = "export"
        /\ Possible(path, outcome)
        /\ IF n \in exported
           THEN /\ pc' = [pc EXCEPT ![h] = "active_low"]
                /\ Continues(h, <<>>)
                /\ UNCHANGED exported
           ELSE IF outcome = "ok"
           THEN /\ exported' = exported \cup {n}
                /\ pc' = [pc EXCEPT ![h] = "active_low"]
                /\ Continues(h, calls)
           ELSE /\ open_fails(h, WriteError(path, outcome), calls)
                /\ UNCHANGED exported
        /\ UNCHANGED <<value, gpio_num, dir, sysfp, reads>>

\* export_gpio_if_unexported, the pin was not visible: create the export
\* control and write the pin number to it.
open_export(h, outcome) ==
    LET n == gpio_num[h]
        path == ControlPath("export")
        calls == WriteFile(path, ExportBytes(n), outcome)
    IN  /\ pc[h] = "export"
        /\ Possible(path, outcome)
        /\ IF outcome = "ok"
           THEN /\ exported' = exported \cup {n}
                /\ pc' = [pc EXCEPT ![h] = "active_low"]
                /\ Continues(h, calls)
           ELSE /\ open_fails(h, WriteError(path, outcome), calls)
                /\ UNCHANGED exported
        /\ UNCHANGED <<value, gpio_num, dir, sysfp, reads>>

\* A polarity write of open: active_low := b"0"; then on to `next`.
write_active_low(h, outcome, next) ==
    LET n == gpio_num[h]
        path == PinPath(n, "active_low")
        calls == WriteFile(path, ActiveLowBytes, outcome)
    IN  /\ Possible(path, outcome)
        /\ IF outcome = "ok"
           THEN /\ pc' = [pc EXCEPT ![h] = next]
                /\ Continues(h, calls)
           ELSE open_fails(h, WriteError(path, outcome), calls)
        /\ UNCHANGED <<exported, value, gpio_num, dir, sysfp, reads>>

\* export_gpio_if_unexported, "ensure we're using '0' as low".
open_active_low(h, outcome) ==
    /\ pc[h] = "active_low"
    /\ write_active_low(h, outcome, "active_low_again")

\* SysFsGpio::open, "ensure we're using '0' as low", after
\* export_gpio_if_unexported has returned.
open_active_low_again(h, outcome) ==
    /\ pc[h] = "active_low_again"
    /\ write_active_low(h, outcome, "direction")

\* An open that drops the result of set_gpio_direction instead of returning it.
open_direction_unchecked(h, outcome) ==
    /\ pc[h] = "direction"
    /\ Possible(PinPath(gpio_num[h], "direction"), outcome)
    /\ pc' = [pc EXCEPT ![h] = "value"]
    /\ log' = [log EXCEPT ![h] =
                  @ \o WriteFile(PinPath(gpio_num[h], "direction"),
                                 DirectionBytes(dir[h]), outcome)]
    /\ UNCHANGED <<exported, value, gpio_num, dir, sysfp, reads, ret>>

\* SysFsGpio::open: set_gpio_direction(gpio_num, direction)?
open_direction(h, outcome) ==
    LET n == gpio_num[h]
        path == PinPath(n, "direction")
        calls == set_gpio_direction(n, dir[h], outcome)
    IN  /\ pc[h] = "direction"
        /\ Possible(path, outcome)
        /\ IF outcome = "ok"
           THEN /\ pc' = [pc EXCEPT ![h] = "value"]
                /\ Continues(h, calls)
           ELSE open_fails(h, WriteError(path, outcome), calls)
        /\ UNCHANGED <<exported, value, gpio_num, dir, sysfp, reads>>

\* SysFsGpio::open: Ok(SysFsGpio { gpio_num, sysfp: open_gpio(..)? })
open_value(h, ok) ==
    LET n == gpio_num[h]
        path == PinPath(n, "value")
        calls == open_gpio(n, dir[h], ok)
    IN  /\ pc[h] = "value"
        /\ Possible(path, IF ok THEN "ok" ELSE "open_fails")
        /\ IF ok
           THEN /\ pc' = [pc EXCEPT ![h] = "alive"]
                /\ sysfp' = [sysfp EXCEPT ![h] = open_gpio_file(dir[h])]
                /\ log' = [log EXCEPT ![h] = @ \o Logged(calls)]
                /\ ret' = [h |-> h, op |-> "open", val |-> Ok, calls |-> log'[h]]
           ELSE /\ open_fails(h, IoError("value", calls[1].op), calls)
                /\ UNCHANGED sysfp
        /\ UNCHANGED <<exported, value, gpio_num, dir, reads>>

\* The handle goes out of scope: Drop for SysFsGpio runs.
Drop(h, outcome) ==
    LET n == gpio_num[h]
        path == ControlPath("unexport")
    IN  /\ pc[h] = "alive"
        /\ Possible(path, outcome)
        /\ pc' = [pc EXCEPT ![h] = "dropped"]
        /\ sysfp' = [sysfp EXCEPT ![h] = NoFile]
        /\ exported' = Unexported(n, outcome)
        /\ Returns(h, "drop", Ok, drop(n, outcome))
        /\ UNCHANGED <<value, gpio_num, dir, reads>>

\* A set_direction that goes through the polarity fix-up again.
set_direction_with_polarity(n, direction, outcome, ok) ==
    WriteFile(PinPath(n, "active_low"), ActiveLowBytes, "ok")
        \o set_gpio_direction(n, direction, outcome)
        \o (IF outcome = "ok" THEN open_gpio(n, direction, ok) ELSE <<>>)

\* SysFsGpio::set_direction: set_gpio_direction(..)?, then
\* self.sysfp = RefCell::new(open_gpio(..)?): the calls made.
set_direction(n, direction, outcome, ok) ==
    set_gpio_direction(n, direction, outcome)
        \o (IF outcome = "ok" THEN open_gpio(n, direction, ok) ELSE <<>>)

\* The error set_direction returns, if any.
set_direction_result(n, direction, outcome, ok) ==
    IF outcome # "ok" THEN WriteError(PinPath(n, "direction"), outcome)
    ELSE IF ~ok THEN IoError("value", IF direction = Input THEN "open" ELSE "create")
    ELSE Ok

\* A switch that borrows the handle instead of consuming it: when
\* set_direction fails the error is returned and the handle lives on.
switch_direction_keeping(h, op, direction, outcome, ok, u) ==
    LET n == gpio_num[h]
        calls == set_direction(n, direction, outcome, ok)
        res == set_direction_result(n, direction, outcome, ok)
    IN  /\ Possible(PinPath(n, "direction"), outcome)
        /\ outcome = "ok" => Possible(PinPath(n, "value"), IF ok THEN "ok" ELSE "open_fails")
        /\ Len(CallsOn(log[h], "direction", "create")) <= MaxSwitches
        /\ u = "ok"
        /\ IF res = Ok
           THEN /\ dir' = [dir EXCEPT ![h] = direction]
                /\ sysfp' = [sysfp EXCEPT ![h] = open_gpio_file(direction)]
                /\ reads' = [reads EXCEPT ![h] = 0]
           ELSE UNCHANGED <<dir, sysfp, reads>>
        /\ Returns(h, op, res, calls)
        /\ UNCHANGED <<pc, exported, value, gpio_num>>

\* into_input / into_output: self is consumed.  If set_direction fails the
\* error is returned and self.gpio is dropped on the way out (outcome u);
\* otherwise the SysFsGpio moves into the handle of the other type.
switch_direction(h, op, direction, outcome, ok, u) ==
    LET n == gpio_num[h]
        calls == set_direction(n, direction, outcome, ok)
        res == set_direction_result(n, direction, outcome, ok)
    IN  /\ Possible(PinPath(n, "direction"), outcome)
        /\ outcome = "ok" => Possible(PinPath(n, "value"), IF ok THEN "ok" ELSE "open_fails")
        /\ Len(CallsOn(log[h], "direction", "create")) <= MaxSwitches
        /\ IF res = Ok
           THEN /\ u = "ok"
                /\ dir' = [dir EXCEPT ![h] = direction]
                /\ sysfp' = [sysfp EXCEPT ![h] = open_gpio_file(direction)]
                /\ reads' = [reads EXCEPT ![h] = 0]
                /\ Returns(h, op, Ok, calls)
                /\ UNCHANGED <<pc, exported>>
           ELSE /\ Possible(ControlPath("unexport"), u)
                /\ pc' = [pc EXCEPT ![h] = "dropped"]
                /\ sysfp' = [sysfp EXCEPT ![h] = NoFile]
                /\ exported' = Unexported(n, u)
                /\ Returns(h, op, res, calls \o drop(n, u))
                /\ UNCHANGED <<dir, reads>>
        /\ UNCHANGED <<value, gpio_num>>

\* SysFsGpioOutput::into_input
into_input(h, outcome, ok, u) ==
    /\ pc[h] = "alive" /\ dir[h] = Output
    /\ switch_direction(h, "into_input", Input, outcome, ok, u)

\* SysFsGpioInput::into_output
into_output(h, outcome, ok, u) ==
    /\ pc[h] = "alive" /\ dir[h] = Input
    /\ switch_direction(h, "into_output", Output, outcome, ok, u)

\* SysFsGpioInput::set_edge: open the edge control for writing and write the
\* policy's wire string.
set_edge(h, edge, outcome) ==
    LET path == PinPath(gpio_num[h], "edge")
        calls == IF outcome = "open_fails"
                 THEN <<Call(path, "open_write", <<>>, FALSE)>>
                 ELSE <<Call(path, "open_write", <<>>, TRUE),
                        Call(path, "write", EdgeBytes(edge), outcome = "ok")>>
    IN  /\ pc[h] = "alive" /\ dir[h] = Input
        /\ Possible(path, outcome)
        /\ Returns(h, "set_edge",
                   IF outcome = "ok" THEN Ok
                   ELSE IoError("edge", IF outcome = "open_fails" THEN "open_write" ELSE "write"),
                   calls)
        /\ UNCHANGED <<exported, value, pc, gpio_num, dir, sysfp, reads>>

\* A read_value without the seek: the cursor stays where the last read left it.
Rewind_missing(fp) == fp

\* seek(SeekFrom::Start(0)): the cursor is back at the start.
Rewind(fp) == [fp EXCEPT !.pos = 0]

\* read_exact(&mut buf) with a one-byte buffer, from the cursor: the byte, or
\* -1 at the end of the content (UnexpectedEof).
ReadByte(content, fp) ==
    IF fp.pos < Len(content) THEN content[fp.pos + 1] ELSE 0 - 1

\* A decoding that takes every byte but b'0' for High.
Decode_coercing(byte) == IF byte = ByteZero THEN Low ELSE High

\* match buf[0] { b'0' => Ok(Low), b'1' => Ok(High), val => Err(InvalidData(val)) }
Decode(byte) ==
    IF byte = ByteZero THEN Low
    ELSE IF byte = ByteOne THEN High
    ELSE InvalidData(byte)

\* SysFsGpioInput::read_value: rewind, read one byte, decode it.
read_value(h, seekOk, readOk) ==
    LET path == PinPath(gpio_num[h], "value")
        fp == Rewind(sysfp[h])
        byte == ReadByte(value[gpio_num[h]], fp)
        seek == <<Call(path, "seek", <<>>, seekOk)>>
        read == <<Call(path, "read", IF readOk /\ byte >= 0 THEN <<byte>> ELSE <<>>,
                       readOk /\ byte >= 0)>>
    IN  /\ pc[h] = "alive" /\ dir[h] = Input
        /\ IF ~seekOk
           THEN /\ Returns(h, "read_value", IoError("value", "seek"), seek)
                /\ UNCHANGED <<sysfp, reads>>
           ELSE IF ~readOk \/ byte < 0
           THEN /\ Returns(h, "read_value", IoError("value", "read"), seek \o read)
                /\ sysfp' = [sysfp EXCEPT ![h] = fp]
                /\ UNCHANGED reads
           ELSE /\ Returns(h, "read_value", Decode(byte), seek \o read)
                /\ sysfp' = [sysfp EXCEPT ![h] = [fp EXCEPT !.pos = @ + 1]]
                /\ reads' = [reads EXCEPT ![h] = IF @ < MaxReads THEN @ + 1 ELSE @]
        /\ UNCHANGED <<exported, value, pc, gpio_num, dir>>

\* set_low / set_high: write_all of one byte through the value channel; the
\* kernel drives the line accordingly.
write_value(h, op, byte, ok) ==
    LET n == gpio_num[h]
        calls == <<Call(PinPath(n, "value"), "write", <<byte>>, ok)>>
    IN  /\ pc[h] = "alive" /\ dir[h] = Output
        /\ sysfp[h].pos < MaxWrites
        /\ IF ok
           THEN /\ sysfp' = [sysfp EXCEPT ![h].pos = @ + 1]
                /\ value' = [value EXCEPT ![n] = <<byte, ByteNewline>>]
                /\ Returns(h, op, Ok, calls)
           ELSE /\ Returns(h, op, IoError("value", "write"), calls)
                /\ UNCHANGED <<sysfp, value>>
        /\ UNCHANGED <<exported, pc, gpio_num, dir, reads>>

\* GpioOut::set_low for SysFsGpioOutput
set_low(h, ok) == write_value(h, "set_low", ByteZero, ok)

\* GpioOut::set_high for SysFsGpioOutput
set_high(h, ok) == write_value(h, "set_high", ByteOne, ok)

\* The line changes level, or the resource turns up malformed.
LineChange(p, content) ==
    /\ value[p] # content
    /\ value' = [value EXCEPT ![p] = content]
    /\ UNCHANGED <<exported, pc, gpio_num, dir, sysfp, log, reads, ret>>

\* Another user of the namespace exports or unexports a pin.
NamespaceChange(p) ==
    /\ exported' = IF p \in exported THEN exported \ {p} ELSE exported \cup {p}
    /\ UNCHANGED <<value, pc, gpio_num, dir, sysfp, log, reads, ret>>

\* --------------------------------------------------- the edge multiplexer

\* The input handles an owner may lend to the multiplexer.  The multiplexer
\* uses nothing of a handle but the descriptor of its value channel, which
\* the model identifies with the handle.
MuxDevs == 1..MaxDevs

\* Option<T>.
None == [some |-> FALSE, v |-> 0]
Some(x) == [some |-> TRUE, v |-> x]

\* A u64, kept as its high and its low 32 bits.
U64(hi, lo) == [hi |-> hi, lo |-> lo]

\* The correlation tokens epoll_wait may hand back: the code does not trust
\* them to be tokens it registered.
Tokens == {U64(hi, lo) : hi \in 0..1, lo \in 0..MaxToken}

\* The widths of usize among the targets of the crate.
UsizeBits == {32, 64}

\* v as usize: a usize of 32 bits keeps the low half only.
AsUsize(v) == IF usize_bits = 32 THEN U64(0, v.lo) ELSE v

\* Vec::get: the element at idx, if there is one.
Get(devs, idx) ==
    IF idx.hi = 0 /\ idx.lo < Len(devs) THEN Some(devs[idx.lo + 1]) ELSE None

\* What a call on the multiplexer returns.
OkIter == [kind |-> "Ok", dev |-> 0, count |-> 0, data |-> U64(0, 0)]
OkDev(dev) == [kind |-> "OkDev", dev |-> dev, count |-> 0, data |-> U64(0, 0)]
Epoll == [kind |-> "Epoll", dev |-> 0, count |-> 0, data |-> U64(0, 0)]
EpollEventCount(count) ==
    [kind |-> "EpollEventCount", dev |-> 0, count |-> count, data |-> U64(0, 0)]
EpollDataValue(val) ==
    [kind |-> "EpollDataValue", dev |-> 0, count |-> 0, data |-> val]

\* No multiplexer yet, and a kernel without epoll instances.
NoIter == [state |-> "none", timeout |-> None, devs |-> <<>>, epoll_fd |-> 0]
NoEpoll == [fds |-> {}, interest |-> {}]

\* What epoll_wait did: failed, or wrote count events into the buffer.
Waited(err, count, data) == [err |-> err, count |-> count, data |-> data]
NoWait == Waited(FALSE, 0, U64(0, 0))

\* The record of a call: the handler, whether next yielded an item at all,
\* the result, what epoll_wait had done, and the handler and kind of result
\* of the call before.
Item(op, some, val, out) ==
    [op |-> op, some |-> some, val |-> val, out |-> out,
     prev |-> [op |-> item.op, kind |-> item.val.kind]]
NoItem == [op |-> "none", some |-> FALSE, val |-> OkIter, out |-> NoWait,
           prev |-> [op |-> "none", kind |-> "none"]]

\* SysFsGpioEdgeIter::new: an epoll instance of its own, no timeout, no
\* device.
new(ok) ==
    /\ iter.state = "none"
    /\ IF ok
       THEN LET epoll_fd == Cardinality(epoll.fds) + 1 IN
            /\ epoll' = [epoll EXCEPT !.fds = @ \cup {epoll_fd}]
            /\ iter' = [state |-> "live", timeout |-> None, devs |-> <<>>,
                        epoll_fd |-> epoll_fd]
            /\ item' = Item("new", FALSE, OkIter, NoWait)
       ELSE /\ item' = Item("new", FALSE, Epoll, NoWait)
            /\ UNCHANGED <<iter, epoll>>
    /\ UNCHANGED <<usize_bits, hvars, dvars>>

\* SysFsGpioEdgeIter::timeout_ms.
timeout_ms(t) ==
    /\ iter.state = "live"
    /\ iter' = [iter EXCEPT !.timeout = Some(t)]
    /\ item' = Item("timeout_ms", FALSE, OkIter, NoWait)
    /\ UNCHANGED <<epoll, usize_bits, hvars, dvars>>

\* The token add hands to epoll: a token one too high.
Index_from_one(devs) == U64(0, Len(devs) + 1)

\* The token add hands to epoll: self.devs.len() as u64.
Index(devs) == U64(0, Len(devs))

\* EPOLL_CTL_ADD: the kernel may refuse, and refuses a descriptor that is
\* in the interest list already.
EpollCtlAdd(fd, ok) == ok /\ \A r \in epoll.interest : r.fd # fd

\* add that enters the device in devs before the kernel accepted it.
add_pushing_first(dev, ok) ==
    /\ iter.state = "live"
    /\ LET index == Index(iter.devs) IN
       /\ iter' = [iter EXCEPT !.devs = Append(@, dev)]
       /\ IF EpollCtlAdd(dev, ok)
          THEN /\ epoll' = [epoll EXCEPT
                              !.interest = @ \cup {[fd |-> dev, data |-> index]}]
               /\ item' = Item("add", FALSE, OkIter, NoWait)
          ELSE /\ item' = Item("add", FALSE, Epoll, NoWait)
               /\ UNCHANGED epoll
    /\ UNCHANGED <<usize_bits, hvars, dvars>>

\* SysFsGpioEdgeIter::add: registers the device's descriptor under the
\* token index, and only then enters the device in devs.
add(dev, ok) ==
    /\ iter.state = "live"
    /\ LET index == Index(iter.devs) IN
       IF EpollCtlAdd(dev, ok)
       THEN /\ epoll' = [epoll EXCEPT
                           !.interest = @ \cup {[fd |-> dev, data |-> index]}]
            /\ iter' = [iter EXCEPT !.devs = Append(@, dev)]
            /\ item' = Item("add", FALSE, OkIter, NoWait)
       ELSE /\ item' = Item("add", FALSE, Epoll, NoWait)
            /\ UNCHANGED <<iter, epoll>>
    /\ UNCHANGED <<usize_bits, hvars, dvars>>

\* epoll_wait on a buffer of one event: it fails, or the timeout passes
\* with no event (the buffer keeps the empty event, whose data is 0), or one
\* event is written.  Without a timeout the wait is unbounded.
EpollWait(timeout) ==
    {Waited(TRUE, 0, U64(0, 0))}
    \cup (IF timeout.some THEN {NoWait} ELSE {})
    \cup {Waited(FALSE, 1, data) : data \in Tokens}

\* SysFsGpioEdgeIter::get_next, given what epoll_wait did.
get_next(out) ==
    IF out.err THEN Epoll
    ELSE IF out.count # 1 THEN EpollEventCount(out.count)
    ELSE LET d == Get(iter.devs, AsUsize(out.data)) IN
         IF d.some THEN OkDev(d.v) ELSE EpollDataValue(out.data)

\* next that ends the sequence after a pull that yielded an error.
next_fused(out) ==
    /\ iter.state = "live"
    /\ item' = Item("next",
                    ~(item.op = "next" /\ item.val.kind # "OkDev"),
                    get_next(out), out)
    /\ UNCHANGED <<iter, epoll, usize_bits, hvars, dvars>>

\* Iterator::next: Some(self.get_next()).
next(out) ==
    /\ iter.state = "live"
    /\ item' = Item("next", TRUE, get_next(out), out)
    /\ UNCHANGED <<iter, epoll, usize_bits, hvars, dvars>>

\* The owner lets the multiplexer go.  SysFsGpioEdgeIter has no Drop: devs
\* is freed, and epoll_fd, a plain descriptor number, is forgotten.
DropEdgeIter ==
    /\ iter.state = "live"
    /\ iter' = [iter EXCEPT !.state = "dropped"]
    /\ item' = Item("drop", FALSE, OkIter, NoWait)
    /\ UNCHANGED <<epoll, usize_bits, hvars, dvars>>

\* ------------------------------------------------- the test-double iterator

\* The test-double input pins.
DummyDevs == 1..MaxDummies
GpioValues == {Low, High}

\* No DummyEdgeIter yet.  state tells whether next is being executed.
NoDummyIter == [state |-> "none", timeout |-> None, devs |-> <<>>, elapsed |-> 0]

\* The record of a pull: Some(Ok(dev)) or Some(Err(())), and the result of
\* the pull before.
DummyItem(some, val, dev) ==
    [some |-> some, val |-> val, dev |-> dev, prev |-> dummy_item.val]
NoDummyItem == [some |-> FALSE, val |-> "none", dev |-> 0, prev |-> "none"]

\* One invocation of a device's callback through the iterator: the slot of
\* devs it was made for, the value it returned, and whether next returned
\* the device on it.
Polled(slot, val, ready) == [slot |-> slot, val |-> val, ready |-> ready]

\* DummyGpioIn::set_edge, which needs the pin unborrowed: a pin entered in a
\* DummyEdgeIter is borrowed for as long as the iterator lives.
dummy_set_edge(d, edge) ==
    /\ \A i \in 1..Len(dummy_iter.devs) : dummy_iter.devs[i].dev # d
    /\ dummy_in' = [dummy_in EXCEPT ![d] = edge]
    /\ UNCHANGED <<dummy_iter, polls, dummy_item, hvars, evars>>

\* DummyEdgeIter::new.
dummy_new ==
    /\ dummy_iter.state = "none"
    /\ dummy_iter' = [state |-> "idle", timeout |-> None, devs |-> <<>>,
                      elapsed |-> 0]
    /\ UNCHANGED <<dummy_in, polls, dummy_item, hvars, evars>>

\* DummyEdgeIter::timeout_ms.
dummy_timeout_ms(t) ==
    /\ dummy_iter.state = "idle"
    /\ dummy_iter' = [dummy_iter EXCEPT !.timeout = Some(t)]
    /\ UNCHANGED <<dummy_in, polls, dummy_item, hvars, evars>>

\* DummyEdgeIter::add: samples the pin and enters it with the sample.  The
\* pins are lent in the order of their numbers: the iterator treats every
\* pin alike, so that another order shows nothing new.
dummy_add(d, val) ==
    /\ dummy_iter.state = "idle"
    /\ Len(dummy_iter.devs) < MaxDummies
    /\ d = Len(dummy_iter.devs) + 1
    /\ Len(polls) < MaxPolls
    /\ dummy_iter' = [dummy_iter EXCEPT
                        !.devs = Append(@, [dev |-> d, val |-> val])]
    /\ polls' = Append(polls, Polled(Len(dummy_iter.devs) + 1, val, FALSE))
    /\ UNCHANGED <<dummy_in, dummy_item, hvars, evars>>

\* The match of next that reports every change.
Reports_any(edge, new_val) == edge # "None"

\* The match of next on (gpio.edge, new_val): whether the change to new_val
\* is reported.
Reports(edge, new_val) ==
    \/ edge = "Both"
    \/ edge = "Rising" /\ new_val = High
    \/ edge = "Falling" /\ new_val = Low

\* The for loop that does not store the value it saw.
RECURSIVE ForDevs_forgetting(_, _, _)
ForDevs_forgetting(devs, vals, i) ==
    IF i > Len(devs) THEN [devs |-> devs, hit |-> 0]
    ELSE IF devs[i].val = vals[i] THEN ForDevs_forgetting(devs, vals, i + 1)
    ELSE IF Reports(dummy_in[devs[i].dev], vals[i])
         THEN [devs |-> devs, hit |-> i]
         ELSE ForDevs_forgetting(devs, vals, i + 1)

\* The for loop that stores the value it saw only when it reports it.
RECURSIVE ForDevs_storing_reports(_, _, _)
ForDevs_storing_reports(devs, vals, i) ==
    IF i > Len(devs) THEN [devs |-> devs, hit |-> 0]
    ELSE IF devs[i].val = vals[i] THEN ForDevs_storing_reports(devs, vals, i + 1)
    ELSE IF Reports(dummy_in[devs[i].dev], vals[i])
         THEN [devs |-> [devs EXCEPT ![i].val = vals[i]], hit |-> i]
         ELSE ForDevs_storing_reports(devs, vals, i + 1)

\* The for loop of next from slot i on, the callback of slot j returning
\* vals[j]: the entries as it leaves them, and the slot whose device it
\* returns (0: it ran to the end).
RECURSIVE ForDevs(_, _, _)
ForDevs(devs, vals, i) ==
    IF i > Len(devs) THEN [devs |-> devs, hit |-> 0]
    ELSE LET new_val == vals[i]
             stored == [devs EXCEPT ![i].val = new_val]
         IN IF devs[i].val = new_val THEN ForDevs(devs, vals, i + 1)
            ELSE IF Reports(dummy_in[devs[i].dev], new_val)
                 THEN [devs |-> stored, hit |-> i]
                 ELSE ForDevs(stored, vals, i + 1)

\* The callback invocations of one run of the for loop that ended at hit.
Invocations(vals, n, hit) ==
    [i \in 1..(IF hit = 0 THEN n ELSE hit) |-> Polled(i, vals[i], i = hit)]

\* Iterator::next is called: let start = Instant::now().
dummy_next_start ==
    /\ dummy_iter.state = "idle"
    /\ dummy_iter' = [dummy_iter EXCEPT !.state = "looping", !.elapsed = 0]
    /\ UNCHANGED <<dummy_in, polls, dummy_item, hvars, evars>>

\* A check of the clock that lets a further millisecond pass.
TimedOut_late(timeout, elapsed, more) ==
    timeout.some /\ elapsed > timeout.v + 1

\* start.elapsed() > to, elapsed being the whole milliseconds gone and more
\* telling whether a further part of a millisecond has gone.
TimedOut(timeout, elapsed, more) ==
    timeout.some /\ (elapsed > timeout.v \/ (elapsed = timeout.v /\ more))

\* One round of the loop of Iterator::next: the timeout is checked, then
\* every device is polled in the order of devs until one is returned, then
\* the thread sleeps a millisecond.  The environment gives the clock and
\* the callbacks' values; once MaxPolls invocations are recorded, it keeps
\* every pin at the value stored for it.
dummy_next_loop(more, vals) ==
    /\ dummy_iter.state = "looping"
    /\ IF TimedOut(dummy_iter.timeout, dummy_iter.elapsed, more)
       THEN /\ dummy_iter' = [dummy_iter EXCEPT !.state = "idle", !.elapsed = 0]
            /\ dummy_item' = DummyItem(TRUE, "Err", 0)
            /\ UNCHANGED polls
       ELSE LET n == Len(dummy_iter.devs)
                room == Len(polls) + n <= MaxPolls
                end == ForDevs(dummy_iter.devs, vals, 1)
            IN /\ vals \in [1..n -> GpioValues]
               /\ room \/ \A i \in 1..n : vals[i] = dummy_iter.devs[i].val
               /\ polls' = IF room THEN polls \o Invocations(vals, n, end.hit)
                           ELSE polls
               /\ IF end.hit # 0
                  THEN /\ dummy_iter' = [dummy_iter EXCEPT !.state = "idle",
                                                          !.devs = end.devs,
                                                          !.elapsed = 0]
                       /\ dummy_item' = DummyItem(TRUE, "Ok",
                                                  dummy_iter.devs[end.hit].dev)
                  ELSE /\ dummy_iter' =
                              [dummy_iter EXCEPT
                                 !.devs = end.devs,
                                 !.elapsed = IF dummy_iter.timeout.some
                                             THEN @ + 1 ELSE @]
                       /\ UNCHANGED dummy_item
    /\ UNCHANGED <<dummy_in, hvars, evars>>

\* ---------------------------------------------------------- specifications

\* The multiplexer and the test double before anything was made of them.
NoEdgeIter == iter = NoIter /\ epoll = NoEpoll /\ item = NoItem
NoDummy ==
    /\ dummy_in = [d \in DummyDevs |-> "None"]
    /\ dummy_iter = NoDummyIter
    /\ polls = <<>>
    /\ dummy_item = NoDummyItem

Init ==
    /\ exported \in SUBSET Pins
    /\ value = [p \in Pins |-> <<ByteZero, ByteNewline>>]
    /\ pc = [h \in Handles |-> "new"]
    /\ gpio_num = [h \in Handles |-> LowPin]
    /\ dir = [h \in Handles |-> Input]
    /\ sysfp = [h \in Handles |-> NoFile]
    /\ log = [h \in Handles |-> <<>>]
    /\ reads = [h \in Handles |-> 0]
    /\ ret = [h |-> 0, op |-> "none", val |-> Ok, calls |-> <<>>]
    /\ NoEdgeIter
    /\ usize_bits = 64
    /\ NoDummy

Next ==
    \/ /\ \E h \in Handles, n \in Pins, d \in Directions : open_metadata(h, n, d)
       /\ UNCHANGED <<evars, dvars>>
    \/ /\ \E h \in Handles, o \in Outcomes : open_export(h, o)
       /\ UNCHANGED <<evars, dvars>>
    \/ /\ \E h \in Handles, o \in Outcomes : open_active_low(h, o)
       /\ UNCHANGED <<evars, dvars>>
    \/ /\ \E h \in Handles, o \in Outcomes : open_active_low_again(h, o)
       /\ UNCHANGED <<evars, dvars>>
    \/ /\ \E h \in Handles, o \in Outcomes : open_direction(h, o)
       /\ UNCHANGED <<evars, dvars>>
    \/ /\ \E h \in Handles, ok \in BOOLEAN : open_value(h, ok)
       /\ UNCHANGED <<evars, dvars>>
    \/ /\ \E h \in Handles, o \in Outcomes, ok \in BOOLEAN, u \in Outcomes :
             into_input(h, o, ok, u)
       /\ UNCHANGED <<evars, dvars>>
    \/ /\ \E h \in Handles, o \in Outcomes, ok \in BOOLEAN, u \in Outcomes :
             into_output(h, o, ok, u)
       /\ UNCHANGED <<evars, dvars>>
    \/ /\ \E h \in Handles, e \in GpioEdges, o \in Outcomes : set_edge(h, e, o)
       /\ UNCHANGED <<evars, dvars>>
    \/ /\ \E h \in Handles, s \in BOOLEAN, r \in BOOLEAN : read_value(h, s, r)
       /\ UNCHANGED <<evars, dvars>>
    \/ /\ \E h \in Handles, ok \in BOOLEAN : set_low(h, ok)
       /\ UNCHANGED <<evars, dvars>>
    \/ /\ \E h \in Handles, ok \in BOOLEAN : set_high(h, ok)
       /\ UNCHANGED <<evars, dvars>>
    \/ /\ \E h \in Handles, o \in Outcomes : Drop(h, o)
       /\ UNCHANGED <<evars, dvars>>
    \/ /\ \E p \in Pins, c \in ValueContents : LineChange(p, c)
       /\ UNCHANGED <<evars, dvars>>
    \/ /\ \E p \in Pins : NamespaceChange(p)
       /\ UNCHANGED <<evars, dvars>>

Spec == Init /\ [][Next]_vars

\* The handles before any open call, in a namespace without exported pins.
NoHandle(hs) ==
    /\ value = [p \in Pins |-> <<ByteZero, ByteNewline>>]
    /\ pc = [h \in hs |-> "new"]
    /\ gpio_num = [h \in hs |-> LowPin]
    /\ dir = [h \in hs |-> Input]
    /\ sysfp = [h \in hs |-> NoFile]
    /\ log = [h \in hs |-> <<>>]
    /\ reads = [h \in hs |-> 0]
    /\ ret = [h |-> 0, op |-> "none", val |-> Ok, calls |-> <<>>]

\* The edge multiplexer alone, on a target of either width.
InitMux ==
    /\ exported = {}
    /\ NoHandle(Handles)
    /\ NoEdgeIter
    /\ usize_bits \in UsizeBits
    /\ NoDummy

NextMux ==
    \/ \E ok \in BOOLEAN : new(ok)
    \/ \E t \in 0..MaxTimeout : timeout_ms(t)
    \/ \E dev \in MuxDevs, ok \in BOOLEAN : add(dev, ok)
    \/ \E out \in EpollWait(iter.timeout) : next(out)
    \/ DropEdgeIter

SpecMux == InitMux /\ [][NextMux]_vars

\* The test-double iterator alone.
InitDummy ==
    /\ exported = {}
    /\ NoHandle(Handles)
    /\ NoEdgeIter
    /\ usize_bits = 64
    /\ NoDummy

NextDummy ==
    \/ \E d \in DummyDevs, edge \in GpioEdges : dummy_set_edge(d, edge)
    \/ dummy_new
    \/ \E t \in 0..MaxTimeout : dummy_timeout_ms(t)
    \/ \E d \in DummyDevs, val \in GpioValues : dummy_add(d, val)
    \/ dummy_next_start
    \/ \E more \in BOOLEAN, vals \in [1..Len(dummy_iter.devs) -> GpioValues] :
          dummy_next_loop(more, vals)

SpecDummy == InitDummy /\ [][NextDummy]_vars

\* The thread that called next keeps running: the loop goes on to its next
\* round for as long as it has not returned.
SpecDummyFair ==
    SpecDummy
    /\ WF_vars(\E more \in BOOLEAN,
                  vals \in [1..Len(dummy_iter.devs) -> GpioValues] :
                  dummy_next_loop(more, vals))

\* Either kind of iterator: a run uses the multiplexer or the test double,
\* which share no state.
InitEdge == InitMux

NextEdge ==
    \/ NoDummy /\ \E ok \in BOOLEAN : new(ok)
    \/ NoDummy /\ \E t \in 0..MaxTimeout : timeout_ms(t)
    \/ NoDummy /\ \E dev \in MuxDevs, ok \in BOOLEAN : add(dev, ok)
    \/ NoDummy /\ \E out \in EpollWait(iter.timeout) : next(out)
    \/ NoDummy /\ DropEdgeIter
    \/ NoEdgeIter /\ \E d \in DummyDevs, edge \in GpioEdges : dummy_set_edge(d, edge)
    \/ NoEdgeIter /\ dummy_new
    \/ NoEdgeIter /\ \E t \in 0..MaxTimeout : dummy_timeout_ms(t)
    \/ NoEdgeIter /\ \E d \in DummyDevs, val \in GpioValues : dummy_add(d, val)
    \/ NoEdgeIter /\ dummy_next_start
    \/ NoEdgeIter /\ \E more \in BOOLEAN,
                        vals \in [1..Len(dummy_iter.devs) -> GpioValues] :
                        dummy_next_loop(more, vals)

SpecEdge == InitEdge /\ [][NextEdge]_vars

\* Two open calls at once, of two threads or two processes.
Opens == {1, 2}

InitRace ==
    /\ exported \in SUBSET Pins
    /\ NoHandle(Opens)
    /\ NoEdgeIter
    /\ usize_bits = 64
    /\ NoDummy

NextRace ==
    \/ /\ \E h \in Opens, n \in Pins, d \in Directions : open_metadata(h, n, d)
       /\ UNCHANGED <<evars, dvars>>
    \/ /\ \E h \in Opens, o \in Outcomes : open_export(h, o)
       /\ UNCHANGED <<evars, dvars>>
    \/ /\ \E h \in Opens, o \in Outcomes : open_active_low(h, o)
       /\ UNCHANGED <<evars, dvars>>
    \/ /\ \E h \in Opens, o \in Outcomes : open_active_low_again(h, o)
       /\ UNCHANGED <<evars, dvars>>
    \/ /\ \E h \in Opens, o \in Outcomes : open_direction(h, o)
       /\ UNCHANGED <<evars, dvars>>
    \/ /\ \E h \in Opens, ok \in BOOLEAN : open_value(h, ok)
       /\ UNCHANGED <<evars, dvars>>
    \/ /\ \E h \in Opens, o \in Outcomes : Drop(h, o)
       /\ UNCHANGED <<evars, dvars>>

SpecRace == InitRace /\ [][NextRace]_vars

\* ------------------------------------------------------------ the claims

\* The calls of handle h on a control resource.
ExportWrites(h) == CallsOn(log[h], "export", "write")
UnexportCreates(h) == CallsOn(log[h], "unexport", "create")
UnexportWrites(h) == CallsOn(log[h], "unexport", "write")
ActiveLowWrites(h) == CallsOn(log[h], "active_low", "write")
DirectionCreates(h) == CallsOn(log[h], "direction", "create")

\* What the open call of h saw when it looked for gpioN.
SawExported(h) == log[h] # <<>> /\ log[h][1].op = "metadata" /\ log[h][1].ok

\* The pin number a control resource reads from the bytes written to it:
\* decimal digits, with or without one line terminator after them; -1 for
\* anything else.
RECURSIVE ParseDigits(_)
ParseDigits(b) ==
    IF b = <<>> THEN 0
    ELSE 10 * ParseDigits(SubSeq(b, 1, Len(b) - 1)) + (b[Len(b)] - ByteZero)

ParsePin(b) ==
    LET digits == IF b # <<>> /\ b[Len(b)] = ByteNewline
                  THEN SubSeq(b, 1, Len(b) - 1) ELSE b
    IN  IF digits # <<>> /\ \A i \in 1..Len(digits) : digits[i] \in ByteZero..(ByteZero + 9)
        THEN ParseDigits(digits) ELSE 0 - 1

\* Every call of the sequence writes pin number n.
AllWrite(calls, n) == \A i \in 1..Len(calls) : ParsePin(calls[i].data) = n

\* C1 as claimed: a handle that was opened and torn down has written its pin
\* number exactly once to export, whatever the pin's export state before the
\* open, and has made exactly one attempt on unexport (one open of the
\* control, at most one write, of its pin number).
C1_AsClaimed ==
    \A h \in Handles : pc[h] = "dropped" =>
        /\ Len(ExportWrites(h)) = 1
        /\ AllWrite(ExportWrites(h), gpio_num[h])
        /\ Len(UnexportCreates(h)) = 1
        /\ Len(UnexportWrites(h)) <= 1
        /\ AllWrite(UnexportWrites(h), gpio_num[h])

\* C1, amended: a handle that was opened and torn down has written its pin
\* number to export once if its open found the pin not visible and never if it
\* found it visible; it has opened the unexport control exactly once and, if
\* that open succeeded, written the pin number to it exactly once.
C1_ExportOnceIfUnexported ==
    \A h \in Handles : pc[h] = "dropped" =>
        /\ Len(ExportWrites(h)) = IF SawExported(h) THEN 0 ELSE 1
        /\ AllWrite(ExportWrites(h), gpio_num[h])
        /\ Len(UnexportCreates(h)) = 1
        /\ Len(UnexportWrites(h)) = IF UnexportCreates(h)[1].ok THEN 1 ELSE 0
        /\ AllWrite(UnexportWrites(h), gpio_num[h])

\* A handle torn down whose open found the two-digit pin already visible: no
\* export write, one unexport write.
C1_Witness ==
    \E h \in Handles :
        /\ pc[h] = "dropped"
        /\ gpio_num[h] = HighPin
        /\ SawExported(h)
        /\ ExportWrites(h) = <<>>
        /\ Len(UnexportWrites(h)) = 1

\* The part of a handle's log that its open call wrote: up to the first
\* opening of the value channel.
OpenLog(h) ==
    LET opens == {i \in 1..Len(log[h]) : log[h][i].path.file = "value"}
    IN  IF opens = {} THEN log[h]
        ELSE SubSeq(log[h], 1, CHOOSE i \in opens : \A j \in opens : i <= j)

\* The step of open a call belongs to: 1 export (with its visibility check),
\* 2 polarity fix-up, 3 direction write, 4 value-channel open.
StepOf(call) ==
    CASE call.path.file \in {"gpio", "export"} -> 1
      [] call.path.file = "active_low" -> 2
      [] call.path.file = "direction" -> 3
      [] call.path.file = "value" -> 4
      [] OTHER -> 5

\* The call succeeded (the visibility check cannot fail: it only answers).
Went(call) == call.ok \/ call.op = "metadata"

\* C2: the calls of an open come in the order export, polarity, direction,
\* value channel, each step only after the earlier ones succeeded; a call that
\* fails is the last call of the open, which then returns that call's error
\* and leaves no handle (no value channel).
C2_StepsInOrderStopAtFailure ==
    \A h \in Handles :
        LET L == OpenLog(h) IN
        /\ \A i, j \in 1..Len(L) : i < j => StepOf(L[i]) <= StepOf(L[j])
        /\ \A i \in 1..Len(L) : i < Len(L) => Went(L[i])
        /\ \A j \in 1..Len(L) :
              /\ StepOf(L[j]) <= 4
              /\ StepOf(L[j]) >= 2 => L[1].op = "metadata"
              /\ StepOf(L[j]) = 3 =>
                    \E i \in 1..(j - 1) : L[i].path.file = "active_low" /\ L[i].op = "write"
              /\ StepOf(L[j]) = 4 =>
                    \E i \in 1..(j - 1) : L[i].path.file = "direction" /\ L[i].op = "write"
        /\ pc[h] = "failed" =>
              /\ L = log[h] /\ L # <<>> /\ ~Went(L[Len(L)])
              /\ sysfp[h] = NoFile
              /\ ret.h = h =>
                    /\ ret.op = "open" /\ ret.calls = L
                    /\ ret.val = IoError(L[Len(L)].path.file, L[Len(L)].op)
        /\ sysfp[h] # NoFile => pc[h] = "alive" /\ L # <<>> /\ Went(L[Len(L)])
        /\ (ret.h = h /\ ret.op = "open" /\ ret.val = Ok) =>
              /\ pc[h] = "alive" /\ ret.calls = L
              /\ StepOf(L[Len(L)]) = 4

\* An open that failed at its direction write, after export and polarity.
C2_Witness ==
    \E h \in Handles :
        /\ pc[h] = "failed"
        /\ ExportWrites(h) # <<>>
        /\ log[h][Len(log[h])].path.file = "direction"
        /\ log[h][Len(log[h])].op = "write"

\* C3 as claimed: once its open (returned, with or without a handle) and its
\* handle (if any) are over, a call that wrote its pin to export has attempted
\* the unexport.
C3_AsClaimed ==
    \A h \in Handles :
        (/\ pc[h] \in {"failed", "dropped"}
         /\ \E i \in 1..Len(ExportWrites(h)) : ExportWrites(h)[i].ok)
        => UnexportCreates(h) # <<>>

\* C4: an open that failed has made no call on the unexport control, and a
\* call on the unexport control is only ever made for a handle that open
\* returned (its value channel was opened).
C4_NoUnexportWithoutHandle ==
    \A h \in Handles :
        /\ pc[h] = "failed" => UnexportCreates(h) = <<>> /\ UnexportWrites(h) = <<>>
        /\ (UnexportCreates(h) # <<>> \/ UnexportWrites(h) # <<>>) =>
              /\ pc[h] = "dropped"
              /\ \E i \in 1..Len(log[h]) :
                    /\ log[h][i].path.file = "value" /\ log[h][i].ok
                    /\ \A j \in 1..i : log[h][j].path.file # "unexport"

\* An open that exported its pin and then failed.
C4_Witness ==
    \E h \in Handles :
        /\ pc[h] = "failed"
        /\ ExportWrites(h) # <<>> /\ ExportWrites(h)[1].ok
        /\ ret.h = h /\ ret.val.kind = "Io"

\* C5: an open that found its pin visible makes no call on the export control
\* and goes on to the polarity step; an export write is made only by an open
\* that found the pin not visible, at most once, with the pin number; an open
\* that found the pin visible and returned a handle has written polarity and
\* direction and opened the value channel.
C5_ExportOnlyIfNotVisible ==
    \A h \in Handles :
        /\ SawExported(h) =>
              /\ CallsOn(log[h], "export", "create") = <<>>
              /\ ExportWrites(h) = <<>>
              /\ pc[h] # "export"
        /\ (pc[h] # "new" /\ ~SawExported(h)) =>
              /\ Len(ExportWrites(h)) <= 1
              /\ AllWrite(ExportWrites(h), gpio_num[h])
              /\ pc[h] \in {"alive", "dropped"} =>
                    Len(ExportWrites(h)) = 1 /\ ExportWrites(h)[1].ok
        /\ (ret.h = h /\ ret.op = "open" /\ ret.val = Ok) =>
              /\ \A i \in 1..Len(ret.calls) : Went(ret.calls[i])
              /\ CallsOn(ret.calls, "active_low", "write") # <<>>
              /\ CallsOn(ret.calls, "direction", "write") # <<>>
              /\ Len(ret.calls) >= 1
              /\ ret.calls[Len(ret.calls)].path = PinPath(gpio_num[h], "value")

\* An open that found its pin visible and returned a handle.
C5_Witness ==
    \E h \in Handles :
        /\ ret.h = h /\ ret.op = "open" /\ ret.val = Ok
        /\ SawExported(h)
        /\ CallsOn(ret.calls, "export", "write") = <<>>

\* C6: while a handle is alive, whatever it was used for, it has made no call
\* on the unexport control; once it is over it has opened the unexport control
\* exactly once and written to it once if that open succeeded and never if
\* not; no handler returns an error of the unexport control, and the drop
\* reports nothing.
C6_UnexportOnceAtEnd ==
    \A h \in Handles :
        /\ pc[h] = "alive" => UnexportCreates(h) = <<>> /\ UnexportWrites(h) = <<>>
        /\ pc[h] = "dropped" =>
              /\ Len(UnexportCreates(h)) = 1
              /\ Len(UnexportWrites(h)) = IF UnexportCreates(h)[1].ok THEN 1 ELSE 0
              /\ log[h][Len(log[h])].path.file = "unexport"
        /\ ret.val.file # "unexport"
        /\ ret.op = "drop" => ret.val = Ok

\* A handle that switched direction, was dropped by its owner, and whose
\* unexport write failed.
C6_Witness ==
    \E h \in Handles :
        /\ pc[h] = "dropped"
        /\ ret.h = h /\ ret.op = "drop"
        /\ Len(DirectionCreates(h)) >= 2
        /\ Len(UnexportWrites(h)) = 1 /\ ~UnexportWrites(h)[1].ok

\* C7 as claimed: an open that returned a handle has written active_low
\* exactly once, and the handle never writes it again.
C7_AsClaimed ==
    \A h \in Handles :
        pc[h] \in {"alive", "dropped"} =>
            /\ Len(ActiveLowWrites(h)) = 1
            /\ ActiveLowWrites(h)[1].data = <<ByteZero>>

\* C8: a direction switch calls only its own pin's direction control (create,
\* then write b"in" for into_input, b"out" for into_output) and its own pin's
\* value resource (open for reading, create for writing), apart from the
\* unexport of a failed switch: never the export or the polarity control.  A
\* switch that succeeded made exactly those three calls and left a fresh
\* channel of the new mode; the pin number is the one the handle was opened
\* with.
C8_SwitchTouchesDirectionAndValue ==
    \A h \in Handles :
        /\ pc[h] # "new" => log[h][1].path = PinPath(gpio_num[h], "gpio")
        /\ (ret.h = h /\ ret.op \in {"into_input", "into_output"}) =>
              LET n == log[h][1].path.gpio
                  in == ret.op = "into_input"
                  dirCreate == Call(PinPath(n, "direction"), "create", <<>>, TRUE)
                  dirWrite == Call(PinPath(n, "direction"), "write",
                                   IF in THEN <<105, 110>> ELSE <<111, 117, 116>>, TRUE)
                  valOpen == Call(PinPath(n, "value"),
                                  IF in THEN "open" ELSE "create", <<>>, TRUE)
              IN  /\ \A i \in 1..Len(ret.calls) :
                        \/ ret.calls[i].path = PinPath(n, "direction")
                        \/ ret.calls[i].path = PinPath(n, "value")
                        \/ ret.val # Ok /\ ret.calls[i].path = ControlPath("unexport")
                  /\ ret.val = Ok =>
                        /\ ret.calls = <<dirCreate, dirWrite, valOpen>>
                        /\ pc[h] = "alive"
                        /\ gpio_num[h] = n
                        /\ dir[h] = IF in THEN Input ELSE Output
                        /\ sysfp[h] = [mode |-> IF in THEN "read" ELSE "write", pos |-> 0]

\* An output handle of the two-digit pin that became an input handle.
C8_Witness ==
    \E h \in Handles :
        /\ ret.h = h /\ ret.op = "into_input" /\ ret.val = Ok
        /\ gpio_num[h] = HighPin
        /\ sysfp[h].mode = "read"

\* What a value resource's content decodes to by its first byte.
FirstByteValue(content) ==
    IF content[1] = ByteZero THEN Low
    ELSE IF content[1] = ByteOne THEN High
    ELSE InvalidData(content[1])

\* C9: every read_value that does not fail with an I/O error returns what the
\* first byte of the resource's content at that moment decodes to, however
\* many reads the channel has served before: Low on "0\n", High on "1\n".
C9_ReadsFirstByte ==
    [][\A h \in Handles :
          (\E s, r \in BOOLEAN : read_value(h, s, r)) =>
              \/ ret'.val.kind = "Io"
              \/ /\ ret'.val = FirstByteValue(value[gpio_num[h]])
                 /\ sysfp'[h].pos = 1
                 /\ ret'.calls[1].op = "seek" /\ ret'.calls[2].op = "read"
                 /\ ret'.calls[2].data = <<value[gpio_num[h]][1]>>]_vars

\* A second or later read through the same channel that returned High.
C9_Witness ==
    \E h \in Handles :
        /\ ret.h = h /\ ret.op = "read_value" /\ ret.val = High
        /\ reads[h] >= 2

\* C10: a read_value that read a byte returns Low only for b'0', High only for
\* b'1' and InvalidData with that very byte for any other; it returns an I/O
\* error only when the seek or the read failed.
C10_InvalidDataCarriesByte ==
    (ret.op = "read_value") =>
        LET read == CallsOn(ret.calls, "value", "read") IN
        /\ ret.val.kind \in {"Low", "High", "InvalidData", "Io"}
        /\ ret.val.kind = "Io" <=> \E i \in 1..Len(ret.calls) : ~ret.calls[i].ok
        /\ ret.val.kind # "Io" =>
              /\ Len(read) = 1 /\ Len(read[1].data) = 1
              /\ ret.val.kind = "Low" <=> read[1].data[1] = ByteZero
              /\ ret.val.kind = "High" <=> read[1].data[1] = ByteOne
              /\ ret.val.kind = "InvalidData" => ret.val.byte = read[1].data[1]

\* A read that found the byte 0x32 and returned InvalidData(0x32).
C10_Witness ==
    /\ ret.op = "read_value"
    /\ ret.val.kind = "InvalidData" /\ ret.val.byte = 50
    /\ CallsOn(ret.calls, "value", "read")[1].data = <<50>>

\* ------------------------------------------------ the edge multiplexer

\* The last call was a pull whose epoll_wait did not fail and wrote count
\* events.
Pulled(count) == item.op = "next" /\ ~item.out.err /\ item.out.count = count

\* The token is the index of a slot of devs.
IsSlot(data) == data.hi = 0 /\ data.lo < Len(iter.devs)

\* C11, as claimed: a pull that sees no event before the timeout yields an
\* error that is not the unexpected-event-count error, and the multiplexer
\* stays pullable.
C11_AsClaimed ==
    Pulled(0) =>
        /\ item.some
        /\ item.val.kind \notin {"OkDev", "EpollEventCount"}
        /\ iter.state = "live"

\* C12, as claimed: once the multiplexer is dropped, the epoll instance it
\* created is closed.
C12_AsClaimed ==
    iter.state = "dropped" => iter.epoll_fd \notin epoll.fds

\* C13: a pull yields a handle only if epoll_wait wrote exactly one event,
\* and a pull whose one event carries the token some registration gave to
\* the kernel yields the handle of that registration.
C13_YieldsRegisteredHandle ==
    item.op = "next" =>
        /\ item.val.kind = "OkDev" => Pulled(1)
        /\ \A r \in epoll.interest :
              Pulled(1) /\ item.out.data = r.data => item.val = OkDev(r.fd)

\* Two handles registered in the order 2, 1; the event of the first
\* registration arrives and handle 2 is yielded.
C13_Witness ==
    /\ iter.devs = <<2, 1>>
    /\ Pulled(1)
    /\ item.out.data = U64(0, 0)
    /\ item.val = OkDev(2)

\* C14, as claimed: a pull whose one event carries a token that is no slot
\* of the registry yields the data-value error carrying that token.
C14_AsClaimed ==
    Pulled(1) /\ ~IsSlot(item.out.data) =>
        item.val = EpollDataValue(item.out.data)

\* The slot table moves no entry in this step.
SlotsStay ==
    /\ Len(iter'.devs) >= Len(iter.devs)
    /\ \A i \in 1..Len(iter.devs) : iter'.devs[i] = iter.devs[i]

\* An add call that the kernel refused leaves the slot table as it was.
FailedAddKeepsSlots ==
    (\E dev \in MuxDevs, ok \in BOOLEAN : add(dev, ok) /\ ~EpollCtlAdd(dev, ok))
        => iter'.devs = iter.devs

\* C19: the kernel's interest list is the slot table: slot i holds the
\* handle registered under token i, so that each add that succeeds used the
\* number of adds that had succeeded before it; no step moves or removes a
\* slot; an add that the kernel refuses leaves the table unchanged.
C19_RegistryInvariant ==
    /\ [](/\ \A i \in 1..Len(iter.devs) :
                [fd |-> iter.devs[i], data |-> U64(0, i - 1)] \in epoll.interest
          /\ Cardinality(epoll.interest) = Len(iter.devs))
    /\ [][SlotsStay /\ FailedAddKeepsSlots]_vars

\* An add was refused, and the add after it took the token of the refused
\* one: the second slot, under token 1.
C19_Witness ==
    /\ item.op = "add" /\ item.val = OkIter
    /\ item.prev = [op |-> "add", kind |-> "Epoll"]
    /\ Len(iter.devs) = 2
    /\ [fd |-> iter.devs[2], data |-> U64(0, 1)] \in epoll.interest

\* ---------------------------------------------- both kinds of iterator

\* C15: a pull that returns, of the multiplexer or of the test double,
\* returns an item, never the end of the sequence; and after a pull that
\* yielded an error the iterator is as pullable as before: on a multiplexer
\* with a registered handle the next pull can yield a handle, and the test
\* double accepts the next pull.
C15_NeverEndsAndIndependent ==
    /\ item.op = "next" => item.some
    /\ item.op = "next" /\ item.val.kind # "OkDev" /\ iter.devs # <<>> =>
          ENABLED (\E out \in EpollWait(iter.timeout) :
                      next(out) /\ item'.val.kind = "OkDev")
    /\ dummy_item # NoDummyItem => dummy_item.some
    /\ dummy_item.val = "Err" /\ dummy_iter.state = "idle" =>
          ENABLED dummy_next_start

\* A pull of the multiplexer timed out with no event, and the pull after
\* it yielded a handle.
C15_Witness ==
    /\ item.op = "next" /\ item.some /\ item.val.kind = "OkDev"
    /\ item.prev = [op |-> "next", kind |-> "EpollEventCount"]

\* -------------------------------------------- the test-double iterator

\* The callback invocations made for slot s, in order.
SlotPolls(s) == SelectSeq(polls, LAMBDA p : p.slot = s)

\* The values they returned, and how many of them next reported.
Vals(h) == [i \in 1..Len(h) |-> h[i].val]
ReadyCount(h) == Cardinality({i \in 1..Len(h) : h[i].ready})

\* The edge policy of the device in slot s.
SlotEdge(s) == dummy_in[dummy_iter.devs[s].dev]

\* The i-th value of h is a change from from to to.
IsChange(h, i, from, to) == i > 1 /\ h[i - 1].val = from /\ h[i].val = to

\* C16: for every registered device and every sequence of values its
\* callback returned, the first at registration: with Rising, next reported
\* the device exactly at the values that changed Low to High; with Falling,
\* exactly at those that changed High to Low; with None, never.  For Low,
\* Low, High, Low, High and Rising that is two reports.
C16_EdgeFiltering ==
    \A s \in 1..Len(dummy_iter.devs) :
        LET h == SlotPolls(s) IN
        /\ SlotEdge(s) = "Rising" =>
              \A i \in 1..Len(h) : h[i].ready <=> IsChange(h, i, Low, High)
        /\ SlotEdge(s) = "Falling" =>
              \A i \in 1..Len(h) : h[i].ready <=> IsChange(h, i, High, Low)
        /\ SlotEdge(s) = "None" => \A i \in 1..Len(h) : ~h[i].ready
        /\ SlotEdge(s) = "Rising" /\ Vals(h) = <<Low, Low, High, Low, High>>
              => ReadyCount(h) = 2

\* One device with Rising whose callback returned Low, Low, High, Low,
\* High: the last value was reported, the second report.
C16_Witness ==
    /\ Len(dummy_iter.devs) = 1
    /\ SlotEdge(1) = "Rising"
    /\ Vals(SlotPolls(1)) = <<Low, Low, High, Low, High>>
    /\ ReadyCount(SlotPolls(1)) = 2
    /\ dummy_item.val = "Ok" /\ dummy_iter.state = "idle"

\* C17, as claimed: one device with Both whose callback returned Low, Low,
\* High, Low, High was reported four times.
C17_AsClaimed ==
    /\ Len(dummy_iter.devs) = 1
    /\ SlotEdge(1) = "Both"
    /\ Vals(SlotPolls(1)) = <<Low, Low, High, Low, High>>
    => ReadyCount(SlotPolls(1)) = 4

\* C17: with Both, next reports the device exactly at the values that
\* differ from the value before; Low, Low, High, Low, High, the first at
\* registration, has three of them.
C17_BothReportsEveryChange ==
    \A s \in 1..Len(dummy_iter.devs) :
        LET h == SlotPolls(s) IN
        SlotEdge(s) = "Both" =>
            /\ \A i \in 1..Len(h) :
                  h[i].ready <=> (i > 1 /\ h[i - 1].val # h[i].val)
            /\ Vals(h) = <<Low, Low, High, Low, High>> => ReadyCount(h) = 3

\* One device with Both whose callback returned Low, Low, High, Low, High:
\* the last value was reported, the third report.
C17_Witness ==
    /\ Len(dummy_iter.devs) = 1
    /\ SlotEdge(1) = "Both"
    /\ Vals(SlotPolls(1)) = <<Low, Low, High, Low, High>>
    /\ ReadyCount(SlotPolls(1)) = 3
    /\ dummy_item.val = "Ok" /\ dummy_iter.state = "idle"

\* next is being executed with a timeout set.
TimedPull == dummy_iter.state = "looping" /\ dummy_iter.timeout.some

\* This step is a return of next with the timeout error.
TimesOut ==
    /\ dummy_iter.state = "looping" /\ dummy_iter'.state = "idle"
    /\ dummy_item'.val = "Err"

\* This step is a return of next on which no stored value changed.
ReturnsUnchanged ==
    /\ dummy_iter.state = "looping" /\ dummy_iter'.state = "idle"
    /\ dummy_iter'.devs = dummy_iter.devs

\* C18: with a timeout set, next does not run past the bound (at most one
\* round of the loop begins after the timeout has gone) and returns; it
\* returns the timeout error when no value has changed, and not before the
\* timeout has gone; the timeout error leaves the registrations and the
\* values stored for them as they were, for the pulls that follow.
C18_TimeoutTerminates ==
    /\ [](TimedPull => dummy_iter.elapsed <= dummy_iter.timeout.v + 1)
    /\ (TimedPull ~> dummy_iter.state = "idle")
    /\ [][/\ TimedPull /\ ReturnsUnchanged => TimesOut
          /\ TimesOut => /\ dummy_iter.timeout.some
                         /\ dummy_iter.elapsed >= dummy_iter.timeout.v
                         /\ dummy_iter'.devs = dummy_iter.devs]_vars

\* A pull timed out, and the pull after it yielded the device, whose value
\* had changed to the one its policy asks for.
C18_Witness ==
    /\ dummy_item.val = "Ok" /\ dummy_item.prev = "Err"
    /\ dummy_iter.state = "idle"
    /\ Len(dummy_iter.devs) = 1
    /\ SlotEdge(1) = "Rising" /\ dummy_iter.devs[1].val = High

\* ------------------------------------------------- two opens at a time

\* The handle found its pin not visible.
SawUnexported(h) ==
    log[h] # <<>> /\ log[h][1].op = "metadata" /\ ~log[h][1].ok

\* C20: nothing stands between the visibility check and the export write:
\* a call that found its pin not visible goes on to open the export control
\* whatever the other call has done to the namespace since, so that both
\* calls may write the same pin number.
C20_CheckThenActNotAtomic ==
    [][\A h \in Opens :
          pc[h] = "export" /\ pc'[h] # "export" =>
              /\ SawUnexported(h)
              /\ Len(CallsOn(log'[h], "export", "create")) = 1
              /\ CallsOn(log[h], "export", "create") = <<>>]_vars

\* Both calls, for the same pin, found it not visible, and both wrote its
\* number to the export control; the first write had made the pin visible
\* before the second was made.
C20_Witness ==
    /\ \A h \in Opens :
          /\ gpio_num[h] = LowPin
          /\ SawUnexported(h)
          /\ Len(ExportWrites(h)) = 1
          /\ ParsePin(ExportWrites(h)[1].data) = LowPin
    /\ ExportWrites(1)[1].ok
    /\ pc[2] # "export"

\* ------------------------------------------------ failed direction switch

\* The last handler that returned was a direction switch.
Switched == ret.op \in {"into_input", "into_output"}

\* C21: a direction switch that fails, at the direction control or at the
\* reopening of the value channel, returns the error and leaves no handle:
\* the handle is gone and its channel closed, and the call itself, after the
\* failing call, opened the unexport control exactly once and, that open
\* having succeeded, wrote the pin number to it exactly once.  A switch
\* that succeeds unexports nothing and keeps the handle.
C21_FailedSwitchDropsHandle ==
    Switched =>
        LET h == ret.h
            creates == CallsOn(ret.calls, "unexport", "create")
            writes == CallsOn(ret.calls, "unexport", "write")
            failing == Len(ret.calls) - Len(creates) - Len(writes)
        IN IF ret.val = Ok
           THEN /\ pc[h] = "alive" /\ sysfp[h] # NoFile
                /\ creates = <<>> /\ writes = <<>>
           ELSE /\ ret.val.kind = "Io"
                /\ ret.val.file \in {"direction", "value"}
                /\ pc[h] = "dropped" /\ sysfp[h] = NoFile
                /\ Len(creates) = 1
                /\ Len(writes) = (IF creates[1].ok THEN 1 ELSE 0)
                /\ AllWrite(writes, gpio_num[h])
                /\ failing >= 1 /\ ~ret.calls[failing].ok
                /\ ret.calls[failing + 1] = creates[1]
                /\ \A i \in 1..failing : ret.calls[i].path.file # "unexport"

\* into_output failed at the reopening of the value channel; the unexport
\* write that followed succeeded and the pin is no longer exported.
C21_Witness ==
    /\ ret.op = "into_output"
    /\ ret.val = IoError("value", "create")
    /\ pc[ret.h] = "dropped"
    /\ Len(CallsOn(ret.calls, "unexport", "write")) = 1
    /\ CallsOn(ret.calls, "unexport", "write")[1].ok
    /\ gpio_num[ret.h] \notin exported

\* ------------------------------------------ each change reported once

\* Some value from the i-th on, up to the j-th, differs from the one before.
ChangedIn(h, i, j) == \E k \in i..j : k > 1 /\ h[k].val # h[k - 1].val

\* C22: the value stored for a device is the last one its callback
\* returned, reported or not; next reports a device only at a value that
\* differs from the one polled before, so that between two reports of one
\* device its value has changed again.
C22_ChangeReportedOnce ==
    \A s \in 1..Len(dummy_iter.devs) :
        LET h == SlotPolls(s) IN
        /\ h # <<>> /\ dummy_iter.devs[s].val = h[Len(h)].val
        /\ \A i \in 1..Len(h) : h[i].ready => ChangedIn(h, i, i)
        /\ \A i, j \in 1..Len(h) :
              i < j /\ h[i].ready /\ h[j].ready => ChangedIn(h, i + 1, j)

\* Two pulls in a row yielded the same device, with Rising: its value went
\* High, back to Low unreported, and High again.
C22_Witness ==
    /\ Len(dummy_iter.devs) = 1
    /\ SlotEdge(1) = "Rising"
    /\ Vals(SlotPolls(1)) = <<Low, High, Low, High>>
    /\ ReadyCount(SlotPolls(1)) = 2
    /\ dummy_item.val = "Ok" /\ dummy_item.prev = "Ok"
    /\ dummy_iter.state = "idle"

====
